---- MODULE Spec2Model ----
(***************************************************************************)
(* Library-item lifecycle of the library backend: the request handlers of  *)
(* app/api/v1/library_items.py over the CRUD layer (app/crud), the blob    *)
(* store wrapper (app/services/s3_service.py) and the authentication       *)
(* dependencies (app/api/deps.py).  Every request is one atomic step.      *)
(***************************************************************************)
EXTENDS Integers, Sequences, FiniteSets, TLC

\* ---------------------------------------------------------------- bounds
MaxItems == 2        \* ids (uuid4 values) that can ever be generated
MaxTime  == 3        \* database commits (each one happens at a later instant)

\* ------------------------------------------------------------- constants
HTTP_200 == 200
HTTP_201 == 201
HTTP_401 == 401
HTTP_403 == 403
HTTP_404 == 404
HTTP_500 == 500
MAX_LIMIT == 100     \* CommonQueryParams: limit = min(limit, 100)
DEFAULT_LIMIT == 20  \* CommonQueryParams: limit: int = 20

\* NULL column values: timestamps are 1.., keys and texts are non-empty tuples
NullTime == 0
NullKey  == << >>
NullText == << >>
None     == "none"

\* ------------------------------------------------------- the input sets
RegisteredUsers == {"u1", "u2"}          \* rows of users made by the signup service
TEST_USER == "test_user"
\* bearer credentials: absent, or a valid token whose sub is the named user
NoCred == "nocred"
Credentials == {NoCred} \cup RegisteredUsers

ItemIds == 1..MaxItems
ItemTypes == {"document", "video"}
Visibilities == {"public", "private"}
FileKey(n) == <<"file", n>>
ThumbKey(n) == <<"thumb", n>>

VARIABLES
    DEBUG,      \* settings.DEBUG
    users,      \* user_id of the rows of table users
    items,      \* table library_items: id -> row
    issued,     \* number of ids generated so far (uuid4 never repeats)
    blobs,      \* keys present in the bucket
    now,        \* the clock: utcnow() and the database's now()
    executions, \* derived-media workflow executions started: <<s3_key, item id>>
    resp,       \* the last request and the response it got
    trail,      \* history: the item as it was before the last owner soft delete
                \* (and whether the owner's restore and list call followed
                \* it), or as it was created by the last request
    calls       \* the list calls in progress when requests overlap: per call the
                \* place it has reached and what its database session holds

vars == <<DEBUG, users, items, issued, blobs, now, executions, resp, trail, calls>>

\* ------------------------------------------------------ authentication
\* verify_cognito_token: the payload's sub, or None
verify_cognito_token(cred) ==
    IF cred \in RegisteredUsers THEN cred ELSE None

\* user_crud.get_by_user_id
get_by_user_id(usrs, user_id) ==
    IF user_id \in usrs THEN user_id ELSE None

\* deps.get_current_user_optional: the user or None, never an error
get_current_user_optional(dbg, usrs, cred) ==
    IF dbg /\ cred = NoCred
    THEN get_by_user_id(usrs, TEST_USER)
    ELSE IF cred = NoCred THEN None
    ELSE LET sub == verify_cognito_token(cred) IN
         IF sub = None THEN None ELSE get_by_user_id(usrs, sub)

\* deps.get_current_user: the user, or None standing for the 401 it raises
get_current_user(dbg, usrs, cred) ==
    IF dbg
    THEN get_by_user_id(usrs, TEST_USER)
    ELSE IF cred = NoCred THEN None
    ELSE LET sub == verify_cognito_token(cred) IN
         IF sub = None THEN None ELSE get_by_user_id(usrs, sub)

\* library_items.resolve_current_user: [user_id, users] ; user_id = None
\* stands for the HTTPException(401) it raises
resolve_current_user(dbg, usrs, current_user) ==
    IF current_user # None THEN [user_id |-> current_user, users |-> usrs]
    ELSE IF ~dbg THEN [user_id |-> None, users |-> usrs]
    ELSE [user_id |-> TEST_USER, users |-> usrs \cup {TEST_USER}]

\* --------------------------------------------------------- persistence
\* the persisted and external state a handler works on
cur ==
    [users |-> users, items |-> items, issued |-> issued, blobs |-> blobs,
     now |-> now, executions |-> executions]

\* CRUDBase.get: the row with that id, as a sequence of zero or one rows
get(tbl, id) == IF id \in DOMAIN tbl THEN <<tbl[id]>> ELSE << >>

\* the value of a function with one more / one fewer point
Put(tbl, id, row) == [i \in DOMAIN tbl \cup {id} |-> IF i = id THEN row ELSE tbl[i]]
Drop(tbl, id) == [i \in DOMAIN tbl \ {id} |-> tbl[i]]

\* the row with the visibility column's server default instead of the payload's
NewItem_public_by_default(user_id, item_in, t) ==
    [user_id |-> user_id,
     name |-> item_in.name,
     type |-> item_in.type,
     mime_type |-> item_in.mime_type,
     visibility |-> IF "visibility" \in item_in.fields_set THEN item_in.visibility ELSE "public",
     s3_key |-> item_in.s3_key,
     s3_thumbnail_key |-> item_in.s3_thumbnail_key,
     s3_preview_key |-> NullKey,
     s3_subtitle_key |-> NullKey,
     file_size |-> item_in.file_size,
     preview_text |-> item_in.preview_text,
     original_filename |-> item_in.original_filename,
     created_at |-> t,
     updated_at |-> t,
     deleted_at |-> NullTime]

\* the row LibraryItem(**item_in.dict(), user_id=...) as committed at time t
NewItem(user_id, item_in, t) ==
    [user_id |-> user_id,
     name |-> item_in.name,
     type |-> item_in.type,
     mime_type |-> item_in.mime_type,
     visibility |-> item_in.visibility,
     s3_key |-> item_in.s3_key,
     s3_thumbnail_key |-> item_in.s3_thumbnail_key,
     s3_preview_key |-> NullKey,
     s3_subtitle_key |-> NullKey,
     file_size |-> item_in.file_size,
     preview_text |-> item_in.preview_text,
     original_filename |-> item_in.original_filename,
     created_at |-> t,
     updated_at |-> t,
     deleted_at |-> NullTime]

\* create_item taking the lowest id no row has (ids of purged rows come back)
create_item_reusing_ids(s, user_id, item_in) ==
    LET id == CHOOSE i \in 1..(s.issued + 1) :
                  /\ i \notin DOMAIN s.items
                  /\ \A j \in 1..(i - 1) : j \in DOMAIN s.items
    IN  [s EXCEPT !.items = Put(s.items, id, NewItem(user_id, item_in, s.now)),
                  !.issued = IF id > s.issued THEN id ELSE s.issued,
                  !.now = s.now + 1]

\* CRUDLibraryItem.create_item: the row is committed with a fresh uuid4 id
create_item(s, user_id, item_in) ==
    [s EXCEPT !.items = Put(s.items, s.issued + 1, NewItem(user_id, item_in, s.now)),
              !.issued = s.issued + 1,
              !.now = s.now + 1]

\* soft_delete that never commits the change
CRUDBase_soft_delete_uncommitted(s, id) == s

\* LibraryItem.soft_delete + commit: deleted_at = utcnow(), onupdate sets updated_at
CRUDBase_soft_delete(s, id) ==
    IF get(s.items, id) = << >> THEN s
    ELSE [s EXCEPT !.items[id].deleted_at = s.now,
                   !.items[id].updated_at = s.now,
                   !.now = s.now + 1]

\* restore that commits without clearing deleted_at
CRUDBase_restore_keeping_mark(s, id) ==
    IF get(s.items, id) = << >> THEN s
    ELSE IF s.items[id].deleted_at = NullTime THEN s
    ELSE [s EXCEPT !.items[id].updated_at = s.now, !.now = s.now + 1]

\* LibraryItem.restore + commit, only when deleted_at is set
CRUDBase_restore(s, id) ==
    IF get(s.items, id) = << >> THEN s
    ELSE IF s.items[id].deleted_at = NullTime THEN s
    ELSE [s EXCEPT !.items[id].deleted_at = NullTime,
                   !.items[id].updated_at = s.now,
                   !.now = s.now + 1]

\* CRUDBase.remove: hard delete
CRUDBase_remove(s, id) ==
    IF get(s.items, id) = << >> THEN s
    ELSE [s EXCEPT !.items = Drop(s.items, id), !.now = s.now + 1]

\* CRUDBase.update: sets the fields of the payload that the row has; the
\* UPDATE (and with it onupdate=now()) is emitted only for a net change
UpdatedRow(row, update_data) ==
    [f \in DOMAIN row |-> IF f \in DOMAIN update_data THEN update_data[f] ELSE row[f]]

\* update that also revives a soft-deleted row
CRUDBase_update_reviving(s, id, update_data) ==
    LET row == [UpdatedRow(s.items[id], update_data) EXCEPT !.deleted_at = NullTime] IN
    IF row = s.items[id] THEN s
    ELSE [s EXCEPT !.items[id] = [row EXCEPT !.updated_at = s.now],
                   !.now = s.now + 1]

CRUDBase_update(s, id, update_data) ==
    LET row == UpdatedRow(s.items[id], update_data) IN
    IF row = s.items[id] THEN s
    ELSE [s EXCEPT !.items[id] = [row EXCEPT !.updated_at = s.now],
                   !.now = s.now + 1]

\* ------------------------------------------------------ the blob store
\* S3Service.s3_client is set by __init__ (None only without AWS credentials)
S3ClientConfigured == TRUE

\* outcome of one S3 API call: it answers, or it raises ClientError
S3_OK == "ok"
S3_CLIENT_ERROR == "ClientError"

\* delete_file whose failed call has removed the object all the same
delete_file_removing_despite_error(bl, s3_key, outcome) ==
    [ok |-> outcome # S3_CLIENT_ERROR, blobs |-> bl \ {s3_key}]

\* delete_file that reports success and leaves the object where it is
delete_file_keeping_object(bl, s3_key, outcome) ==
    [ok |-> outcome # S3_CLIENT_ERROR, blobs |-> bl]

\* S3Service.delete_file: [ok, blobs]; a ClientError is logged and gives False
delete_file(bl, s3_key, outcome) ==
    IF ~S3ClientConfigured THEN [ok |-> TRUE, blobs |-> bl]
    ELSE IF outcome = S3_CLIENT_ERROR THEN [ok |-> FALSE, blobs |-> bl]
    ELSE [ok |-> TRUE, blobs |-> bl \ {s3_key}]

\* file_exists taking a failed head_object for a present object
file_exists_error_as_present(bl, s3_key, outcome) ==
    IF ~S3ClientConfigured THEN TRUE
    ELSE IF outcome = S3_CLIENT_ERROR THEN TRUE
    ELSE s3_key \in bl

\* file_exists answering True whatever the bucket holds
file_exists_always(bl, s3_key, outcome) == TRUE

\* S3Service.file_exists: head_object answers for a present key, raises
\* ClientError 404 for a missing one, or raises another ClientError
file_exists(bl, s3_key, outcome) ==
    IF ~S3ClientConfigured THEN TRUE
    ELSE IF outcome = S3_CLIENT_ERROR THEN FALSE
    ELSE s3_key \in bl

\* ------------------------------------------------- requests and responses
NoStats ==
    [total_items |-> 0, total_file_size |-> 0, items_by_type |-> << >>,
     recent_uploads |-> 0]

\* a request together with the response it got; fields a request does not
\* have keep the values below
NoResp ==
    [op |-> "none", cred |-> NoCred, user |-> None, id |-> 0, status |-> 0,
     permanent |-> FALSE, include_deleted |-> FALSE, skip |-> 0, limit |-> 0,
     item_type |-> None, search |-> NullText, head_error |-> NullKey,
     data |-> << >>, total |-> 0, page |-> 0, pages |-> 0,
     has_next |-> FALSE, has_prev |-> FALSE,
     size |-> 0, stats |-> NoStats, deleted_count |-> 0, restored_count |-> 0,
     attempted |-> << >>, failed |-> {}, fields |-> {}]

\* what a handler gives: the state it leaves and the response
Result(s, r) == [s |-> s, resp |-> r]

\* ------------------------------------------------------------- create
\* S3Service.trigger_video_preview_generation: start_execution with the key
\* and the item id; any failure is logged and gives None
trigger_video_preview_generation_without_id(ex, s3_key, item_id, outcome) ==
    IF outcome = S3_OK THEN ex \cup {<<s3_key, 0>>} ELSE ex

trigger_video_preview_generation(ex, s3_key, item_id, outcome) ==
    IF outcome = S3_OK THEN ex \cup {<<s3_key, item_id>>} ELSE ex

\* a mime type is the sequence of its parts, "video/mp4" being
\* <<"video", "/", "mp4">>
Mime(major, minor) == <<major, "/", minor>>

\* mime_type.startswith('video/')
StartsWithVideo(mime_type) ==
    Len(mime_type) >= 2 /\ mime_type[1] = "video" /\ mime_type[2] = "/"

\* POST /library-items: any exception, the 401 of resolve_current_user
\* included, is caught and answered 500; attempted and failed record the
\* trigger call and its failure (execution_arn None)
create_library_item(dbg, s, cred, item_in, sfn) ==
    LET current_user == get_current_user_optional(dbg, s.users, cred)
        who == resolve_current_user(dbg, s.users, current_user)
        r0 == [NoResp EXCEPT !.op = "create", !.cred = cred, !.user = who.user_id,
                             !.fields = item_in.fields_set]
    IN  IF who.user_id = None THEN Result(s, [r0 EXCEPT !.status = HTTP_500])
        ELSE LET s1 == create_item([s EXCEPT !.users = who.users], who.user_id, item_in)
                 id == s1.issued
                 triggers == item_in.type = "video" \/ StartsWithVideo(item_in.mime_type)
                 s2 == IF triggers
                       THEN [s1 EXCEPT !.executions =
                                trigger_video_preview_generation(s1.executions, item_in.s3_key, id, sfn)]
                       ELSE s1
                 execution_arn == IF s2.executions = s1.executions THEN None ELSE S3_OK
             IN  Result(s2, [r0 EXCEPT !.status = HTTP_201, !.id = id, !.data = <<id>>,
                                       !.attempted = IF triggers THEN <<item_in.s3_key>> ELSE << >>,
                                       !.failed = IF triggers /\ execution_arn = None
                                                  THEN {item_in.s3_key} ELSE {}])

\* -------------------------------------------------------- single read
\* the single read answering not-found for a soft-deleted item
get_library_item_hiding_deleted(dbg, s, cred, item_id) ==
    LET current_user == get_current_user(dbg, s.users, cred)
        r0 == [NoResp EXCEPT !.op = "get", !.cred = cred, !.user = current_user, !.id = item_id]
    IN  IF current_user = None THEN Result(s, [r0 EXCEPT !.status = HTTP_401])
        ELSE IF get(s.items, item_id) = << >> \/ s.items[item_id].deleted_at # NullTime
        THEN Result(s, [r0 EXCEPT !.status = HTTP_404])
        ELSE LET item == s.items[item_id]
             IN  IF ~(item.user_id = current_user \/ item.visibility = "public")
                 THEN Result(s, [r0 EXCEPT !.status = HTTP_403])
                 ELSE Result(s, [r0 EXCEPT !.status = HTTP_200, !.data = <<item_id>>])

\* GET /library-items/{item_id}; authentication is the dependency get_current_user
get_library_item(dbg, s, cred, item_id) ==
    LET current_user == get_current_user(dbg, s.users, cred)
        r0 == [NoResp EXCEPT !.op = "get", !.cred = cred, !.user = current_user, !.id = item_id]
    IN  IF current_user = None THEN Result(s, [r0 EXCEPT !.status = HTTP_401])
        ELSE IF get(s.items, item_id) = << >> THEN Result(s, [r0 EXCEPT !.status = HTTP_404])
        ELSE LET item == s.items[item_id]
                 is_owner == current_user # None /\ item.user_id = current_user
                 is_public == item.visibility = "public"
             IN  IF ~(is_owner \/ is_public)
                 THEN Result(s, [r0 EXCEPT !.status = HTTP_403])
                 ELSE Result(s, [r0 EXCEPT !.status = HTTP_200, !.data = <<item_id>>])

\* ------------------------------------------------------------- update
\* update_item without the ownership test
update_item_of_anyone(s, item_id, user_id, item_in) ==
    IF get(s.items, item_id) = << >>
    THEN [found |-> FALSE, s |-> s]
    ELSE [found |-> TRUE, s |-> CRUDBase_update(s, item_id, item_in)]

\* CRUDLibraryItem.update_item: None (here found = FALSE) unless the row
\* exists and the requester owns it
update_item(s, item_id, user_id, item_in) ==
    IF get(s.items, item_id) = << >> \/ s.items[item_id].user_id # user_id
    THEN [found |-> FALSE, s |-> s]
    ELSE [found |-> TRUE, s |-> CRUDBase_update(s, item_id, item_in)]

\* PUT /library-items/{item_id}
update_library_item(dbg, s, cred, item_id, item_in) ==
    LET current_user == get_current_user_optional(dbg, s.users, cred)
        who == resolve_current_user(dbg, s.users, current_user)
        r0 == [NoResp EXCEPT !.op = "update", !.cred = cred, !.user = who.user_id,
                             !.id = item_id, !.fields = DOMAIN item_in]
    IN  IF who.user_id = None THEN Result(s, [r0 EXCEPT !.status = HTTP_401])
        ELSE LET u == update_item([s EXCEPT !.users = who.users], item_id, who.user_id, item_in)
             IN  IF ~u.found THEN Result(u.s, [r0 EXCEPT !.status = HTTP_404])
                 ELSE Result(u.s, [r0 EXCEPT !.status = HTTP_200, !.data = <<item_id>>])

\* ------------------------------------------------- delete and restore
\* the key columns in the order delete_item goes through them
DeleteOrder == <<"s3_key", "s3_preview_key", "s3_thumbnail_key", "s3_subtitle_key">>

\* the delete_file calls of delete_item from column k on: one call per
\* non-empty key, whatever the earlier calls returned
RECURSIVE DeleteBlobs(_, _, _, _)
DeleteBlobs(item, k, acc, outcome) ==
    IF k > Len(DeleteOrder) THEN acc
    ELSE LET key == item[DeleteOrder[k]] IN
         IF key = NullKey THEN DeleteBlobs(item, k + 1, acc, outcome)
         ELSE LET d == delete_file(acc.blobs, key, outcome[DeleteOrder[k]])
              IN  DeleteBlobs(item, k + 1,
                     [blobs |-> d.blobs,
                      attempted |-> Append(acc.attempted, key),
                      failed |-> IF d.ok THEN acc.failed ELSE acc.failed \cup {key}],
                     outcome)

\* delete_item that keeps the record when a blob deletion failed
delete_item_unless_failed(s, item_id, user_id, soft_delete, outcome) ==
    IF get(s.items, item_id) = << >> \/ s.items[item_id].user_id # user_id
    THEN [found |-> FALSE, s |-> s, attempted |-> << >>, failed |-> {}]
    ELSE LET b == DeleteBlobs(s.items[item_id], 1,
                      [blobs |-> s.blobs, attempted |-> << >>, failed |-> {}], outcome)
             s1 == [s EXCEPT !.blobs = b.blobs]
         IN  [found |-> TRUE,
              s |-> IF b.failed # {} THEN s1
                    ELSE IF soft_delete THEN CRUDBase_soft_delete(s1, item_id)
                    ELSE CRUDBase_remove(s1, item_id),
              attempted |-> b.attempted, failed |-> b.failed]

\* CRUDLibraryItem.delete_item
delete_item(s, item_id, user_id, soft_delete, outcome) ==
    IF get(s.items, item_id) = << >> \/ s.items[item_id].user_id # user_id
    THEN [found |-> FALSE, s |-> s, attempted |-> << >>, failed |-> {}]
    ELSE LET b == DeleteBlobs(s.items[item_id], 1,
                      [blobs |-> s.blobs, attempted |-> << >>, failed |-> {}], outcome)
             s1 == [s EXCEPT !.blobs = b.blobs]
         IN  [found |-> TRUE,
              s |-> IF soft_delete THEN CRUDBase_soft_delete(s1, item_id)
                                   ELSE CRUDBase_remove(s1, item_id),
              attempted |-> b.attempted, failed |-> b.failed]

\* DELETE /library-items/{item_id}?permanent=
delete_library_item(dbg, s, cred, item_id, permanent, outcome) ==
    LET current_user == get_current_user_optional(dbg, s.users, cred)
        who == resolve_current_user(dbg, s.users, current_user)
        r0 == [NoResp EXCEPT !.op = "delete", !.cred = cred, !.user = who.user_id,
                             !.id = item_id, !.permanent = permanent]
    IN  IF who.user_id = None THEN Result(s, [r0 EXCEPT !.status = HTTP_401])
        ELSE LET d == delete_item([s EXCEPT !.users = who.users], item_id, who.user_id,
                                  ~permanent, outcome)
             IN  IF ~d.found THEN Result(d.s, [r0 EXCEPT !.status = HTTP_404])
                 ELSE Result(d.s, [r0 EXCEPT !.status = HTTP_200,
                                             !.attempted = d.attempted, !.failed = d.failed])

\* CRUDLibraryItem.restore_item
restore_item(s, item_id, user_id) ==
    IF get(s.items, item_id) = << >> \/ s.items[item_id].user_id # user_id
    THEN [found |-> FALSE, s |-> s]
    ELSE [found |-> TRUE, s |-> CRUDBase_restore(s, item_id)]

\* POST /library-items/{item_id}/restore
restore_library_item(dbg, s, cred, item_id) ==
    LET current_user == get_current_user_optional(dbg, s.users, cred)
        who == resolve_current_user(dbg, s.users, current_user)
        r0 == [NoResp EXCEPT !.op = "restore", !.cred = cred, !.user = who.user_id,
                             !.id = item_id]
    IN  IF who.user_id = None THEN Result(s, [r0 EXCEPT !.status = HTTP_401])
        ELSE LET d == restore_item([s EXCEPT !.users = who.users], item_id, who.user_id)
             IN  IF ~d.found THEN Result(d.s, [r0 EXCEPT !.status = HTTP_404])
                 ELSE Result(d.s, [r0 EXCEPT !.status = HTTP_200, !.data = <<item_id>>])

\* ------------------------------------------------------------ queries
Min(a, b) == IF a < b THEN a ELSE b
Max(a, b) == IF a > b THEN a ELSE b

\* ORDER BY created_at DESC of the rows with ids in S
RECURSIVE OrderByCreatedDesc(_, _)
OrderByCreatedDesc(tbl, S) ==
    IF S = {} THEN << >>
    ELSE LET newest == CHOOSE i \in S : \A j \in S : tbl[j].created_at <= tbl[i].created_at
         IN  <<newest>> \o OrderByCreatedDesc(tbl, S \ {newest})

\* OFFSET skip LIMIT limit
OffsetLimit(q, skip, limit) == SubSeq(q, skip + 1, Min(Len(q), skip + limit))

\* lower() of one character
Lower(c) == IF c = "A" THEN "a" ELSE IF c = "B" THEN "b" ELSE c

\* column ILIKE '%query%': a NULL column matches nothing
ILike(text, query) ==
    /\ text # NullText
    /\ \E i \in 1..(Len(text) - Len(query) + 1) :
          \A j \in 1..Len(query) : Lower(text[i + j - 1]) = Lower(query[j])

\* get_by_user without the condition on the owner
get_by_user_of_anyone(tbl, user_id, skip, limit, include_deleted) ==
    OffsetLimit(OrderByCreatedDesc(tbl,
        {i \in DOMAIN tbl : include_deleted \/ tbl[i].deleted_at = NullTime}),
        skip, limit)

\* CRUDLibraryItem.get_by_user
get_by_user(tbl, user_id, skip, limit, include_deleted) ==
    OffsetLimit(OrderByCreatedDesc(tbl,
        {i \in DOMAIN tbl : /\ tbl[i].user_id = user_id
                            /\ (include_deleted \/ tbl[i].deleted_at = NullTime)}),
        skip, limit)

\* CRUDLibraryItem.get_by_type
get_by_type(tbl, user_id, item_type, skip, limit) ==
    OffsetLimit(OrderByCreatedDesc(tbl,
        {i \in DOMAIN tbl : /\ tbl[i].user_id = user_id
                            /\ tbl[i].type = item_type
                            /\ tbl[i].deleted_at = NullTime}),
        skip, limit)

\* CRUDLibraryItem.search_items
search_items(tbl, user_id, query, skip, limit) ==
    OffsetLimit(OrderByCreatedDesc(tbl,
        {i \in DOMAIN tbl : /\ tbl[i].user_id = user_id
                            /\ tbl[i].deleted_at = NullTime
                            /\ \/ ILike(tbl[i].name, query)
                               \/ ILike(tbl[i].original_filename, query)
                               \/ ILike(tbl[i].preview_text, query)}),
        skip, limit)

\* CRUDLibraryItem.count_user_items
count_user_items(tbl, user_id, item_type, include_deleted) ==
    Cardinality({i \in DOMAIN tbl :
        /\ tbl[i].user_id = user_id
        /\ (include_deleted \/ tbl[i].deleted_at = NullTime)
        /\ (item_type = None \/ tbl[i].type = item_type)})

\* get_public_items without the condition on deleted_at
get_public_items_with_deleted(tbl, skip, limit, item_type) ==
    OffsetLimit(OrderByCreatedDesc(tbl,
        {i \in DOMAIN tbl : /\ tbl[i].visibility = "public"
                            /\ (item_type = None \/ tbl[i].type = item_type)}),
        skip, limit)

\* CRUDLibraryItem.get_public_items
get_public_items(tbl, skip, limit, item_type) ==
    OffsetLimit(OrderByCreatedDesc(tbl,
        {i \in DOMAIN tbl : /\ tbl[i].visibility = "public"
                            /\ tbl[i].deleted_at = NullTime
                            /\ (item_type = None \/ tbl[i].type = item_type)}),
        skip, limit)

\* --------------------------------------------------------------- list
\* the reconciliation loop of get_my_library_items over candidates k.. :
\* acc = [s, valid_items, deleted_count, restored_count]
RECURSIVE Reconcile(_, _, _, _, _)
Reconcile(cands, k, acc, include_deleted, head_error) ==
    IF k > Len(cands) THEN acc
    ELSE LET id == cands[k]
             item == acc.s.items[id]
             s3_exists == file_exists(acc.s.blobs, item.s3_key,
                              IF item.s3_key = head_error THEN S3_CLIENT_ERROR ELSE S3_OK)
         IN  IF s3_exists
             THEN LET stale == item.deleted_at # NullTime
                      s1 == IF stale THEN CRUDBase_restore(acc.s, id) ELSE acc.s
                      again == s1.items[id]
                  IN  Reconcile(cands, k + 1,
                          [acc EXCEPT !.s = s1,
                                      !.restored_count = IF stale THEN @ + 1 ELSE @,
                                      !.valid_items =
                                          IF include_deleted \/ again.deleted_at = NullTime
                                          THEN Append(@, id) ELSE @],
                          include_deleted, head_error)
             ELSE IF item.deleted_at = NullTime
             THEN Reconcile(cands, k + 1,
                      [acc EXCEPT !.s = CRUDBase_soft_delete(acc.s, id),
                                  !.deleted_count = @ + 1],
                      include_deleted, head_error)
             ELSE Reconcile(cands, k + 1, acc, include_deleted, head_error)

\* the candidates with the default mode hiding soft-deleted rows as well
Candidates_active_only(tbl, user_id, search, item_type, skip, limit) ==
    IF search # NullText THEN search_items(tbl, user_id, search, skip, limit)
    ELSE IF item_type # None THEN get_by_type(tbl, user_id, item_type, skip, limit)
    ELSE get_by_user(tbl, user_id, skip, limit, FALSE)

\* the candidates the three modes of get_my_library_items fetch
Candidates(tbl, user_id, search, item_type, skip, limit) ==
    IF search # NullText THEN search_items(tbl, user_id, search, skip, limit)
    ELSE IF item_type # None THEN get_by_type(tbl, user_id, item_type, skip, limit)
    ELSE get_by_user(tbl, user_id, skip, limit, TRUE)

\* CommonQueryParams without the cap on limit
CommonQueryParams_uncapped(skip, limit) == [skip |-> skip, limit |-> limit]

\* CommonQueryParams
CommonQueryParams(skip, limit) == [skip |-> skip, limit |-> Min(limit, MAX_LIMIT)]

\* the total counted from the rows as they were when the call began
FinalTotal_before_reconciliation(before, after, user_id, include_deleted) ==
    count_user_items(before.items, user_id, None, include_deleted)

\* get_my_library_items: the total, counted again after the loop's writes
FinalTotal(before, after, user_id, include_deleted) ==
    count_user_items(after.items, user_id, None, include_deleted)

\* GET /library-items: any exception, the 401 of resolve_current_user
\* included, is caught and answered 500
get_my_library_items(dbg, s, cred, skip, limit, item_type, search, include_deleted, head_error) ==
    LET commons == CommonQueryParams(skip, limit)
        current_user == get_current_user_optional(dbg, s.users, cred)
        who == resolve_current_user(dbg, s.users, current_user)
        r0 == [NoResp EXCEPT !.op = "list", !.cred = cred, !.user = who.user_id,
                             !.skip = skip, !.limit = limit, !.item_type = item_type,
                             !.search = search, !.include_deleted = include_deleted,
                             !.head_error = head_error]
    IN  IF who.user_id = None THEN Result(s, [r0 EXCEPT !.status = HTTP_500])
        ELSE LET s0 == [s EXCEPT !.users = who.users]
                 cands == Candidates(s0.items, who.user_id, search, item_type,
                                     commons.skip, commons.limit)
                 done == Reconcile(cands, 1,
                             [s |-> s0, valid_items |-> << >>,
                              deleted_count |-> 0, restored_count |-> 0],
                             include_deleted, head_error)
                 total == FinalTotal(s0, done.s, who.user_id, include_deleted)
                 pages == Max(1, (total + commons.limit - 1) \div commons.limit)
                 current_page == (commons.skip \div commons.limit) + 1
             IN  Result(done.s,
                    [r0 EXCEPT !.status = HTTP_200, !.data = done.valid_items,
                               !.deleted_count = done.deleted_count,
                               !.restored_count = done.restored_count,
                               !.total = total, !.page = current_page,
                               !.size = commons.limit, !.pages = pages,
                               !.has_next = current_page < pages,
                               !.has_prev = current_page > 1])

\* GET /library-items/public: no authentication, no reconciliation
get_public_library_items(s, skip, limit, item_type) ==
    LET commons == CommonQueryParams(skip, limit)
        found == get_public_items(s.items, commons.skip, commons.limit, item_type)
        total == IF Len(found) < commons.limit THEN Len(found)
                 ELSE commons.skip + Len(found) + 1
        pages == (total + commons.limit - 1) \div commons.limit
        current_page == (commons.skip \div commons.limit) + 1
    IN  Result(s,
           [NoResp EXCEPT !.op = "public", !.skip = skip, !.limit = limit,
                          !.item_type = item_type, !.status = HTTP_200,
                          !.data = found, !.total = total, !.page = current_page,
                          !.size = commons.limit, !.pages = pages,
                          !.has_next = (Len(found) = commons.limit),
                          !.has_prev = current_page > 1])

\* --------------------------------------------------------- statistics
RECURSIVE SumSizes(_, _)
SumSizes(tbl, S) ==
    IF S = {} THEN 0
    ELSE LET i == CHOOSE j \in S : TRUE IN tbl[i].file_size + SumSizes(tbl, S \ {i})

RECENT_DAYS == 7

\* get_user_stats without the deleted_at IS NULL conditions
get_user_stats_with_deleted(tbl, user_id, t) ==
    LET active == {i \in DOMAIN tbl : tbl[i].user_id = user_id}
        kinds == {tbl[i].type : i \in active}
    IN  [total_items |-> Cardinality(active),
         total_file_size |-> SumSizes(tbl, active),
         items_by_type |-> [k \in kinds |-> Cardinality({i \in active : tbl[i].type = k})],
         recent_uploads |-> Cardinality({i \in active : tbl[i].created_at >= t - RECENT_DAYS})]

\* CRUDLibraryItem.get_user_stats
get_user_stats(tbl, user_id, t) ==
    LET active == {i \in DOMAIN tbl : tbl[i].user_id = user_id /\ tbl[i].deleted_at = NullTime}
        kinds == {tbl[i].type : i \in active}
    IN  [total_items |-> Cardinality(active),
         total_file_size |-> SumSizes(tbl, active),
         items_by_type |-> [k \in kinds |-> Cardinality({i \in active : tbl[i].type = k})],
         recent_uploads |-> Cardinality({i \in active : tbl[i].created_at >= t - RECENT_DAYS})]

\* GET /library-items/stats/summary: any exception is answered 500
get_my_library_stats(dbg, s, cred) ==
    LET current_user == get_current_user_optional(dbg, s.users, cred)
        who == resolve_current_user(dbg, s.users, current_user)
        r0 == [NoResp EXCEPT !.op = "stats", !.cred = cred, !.user = who.user_id]
    IN  IF who.user_id = None THEN Result(s, [r0 EXCEPT !.status = HTTP_500])
        ELSE LET s0 == [s EXCEPT !.users = who.users]
             IN  Result(s0, [r0 EXCEPT !.status = HTTP_200,
                                       !.stats = get_user_stats(s0.items, who.user_id, s0.now)])

\* ------------------------------------------------------------ the steps
\* the inputs of the requests
Unset == "unset"
\* LibraryItemCreate as validated: visibility defaults to private; fields_set
\* are the fields the request body gave
LibraryItemCreate(name, type, mime_type, visibility, s3_key, s3_thumbnail_key, file_size) ==
    [name |-> name, type |-> type, mime_type |-> mime_type,
     visibility |-> IF visibility = Unset THEN "private" ELSE visibility,
     s3_key |-> s3_key, s3_thumbnail_key |-> s3_thumbnail_key,
     file_size |-> file_size, original_filename |-> <<"f">>, preview_text |-> NullText,
     fields_set |-> {"name", "type", "mime_type", "s3_key", "file_size", "original_filename"}
                    \cup (IF visibility = Unset THEN {} ELSE {"visibility"})
                    \cup (IF s3_thumbnail_key = NullKey THEN {} ELSE {"s3_thumbnail_key"})]

\* the create requests: a private document without thumbnail and a public
\* video with one, for the file (of 100 or 250 bytes) uploaded under the n-th key
CreatePayloads(n) ==
    { LibraryItemCreate(<<"a">>, "document", Mime("application", "pdf"), Unset, FileKey(n), NullKey, 100),
      LibraryItemCreate(<<"a">>, "video", Mime("video", "mp4"), "public", FileKey(n), ThumbKey(n), 250) }

\* LibraryItemUpdate.dict(exclude_unset=True): the fields the request gave
\* (an absent field is the empty sequence, a given one a one-element sequence)
Field(f, given) == IF given = << >> THEN << >> ELSE f :> given[1]
Optional(S) == {<< >>} \cup {<<x>> : x \in S}
UpdatePayloads ==
    { Field("name", n) @@ Field("visibility", v) :
        n \in Optional({<<"B">>}), v \in Optional(Visibilities) } \ {<< >>}

Windows == {<<0, DEFAULT_LIMIT>>, <<0, 1>>, <<1, 1>>}
ListModes == {<<None, NullText>>, <<"document", NullText>>, <<None, <<"a">> >>}
\* which delete_object calls raise ClientError, by key column
DeleteOutcomes ==
    { [f \in {"s3_key", "s3_preview_key", "s3_thumbnail_key", "s3_subtitle_key"} |->
          IF f \in bad THEN S3_CLIENT_ERROR ELSE S3_OK] :
      bad \in SUBSET {"s3_key", "s3_thumbnail_key"} }
NoRow == NewItem(None, LibraryItemCreate(NullText, None, << >>, Unset, NullKey, NullKey, 0), NullTime)
NoTrail == [id |-> 0, stage |-> "none", rec |-> NoRow]

\* a list call that has not begun: n counts the calls made on the connection
NoCall ==
    [pc |-> "idle", n |-> 0, include_deleted |-> FALSE, cands |-> << >>, k |-> 0,
     view |-> << >>, decision |-> "none", seen |-> << >>, erred |-> {}, wrote |-> {},
     valid_items |-> << >>, total |-> 0, status |-> 0,
     steady |-> TRUE, undisturbed |-> TRUE]

\* two connections, on each of which list calls are made one after another
Callers == {1, 2}
NoCalls == [c \in Callers |-> NoCall]

\* requests are served one at a time: none is in progress
Idle == resp.op = "none"

\* a handler's result becomes the next state; at most MaxTime commits happen
Apply(r, tr) ==
    /\ Idle
    /\ r.s.now <= MaxTime + 1
    /\ users' = r.s.users
    /\ items' = r.s.items
    /\ issued' = r.s.issued
    /\ blobs' = r.s.blobs
    /\ now' = r.s.now
    /\ executions' = r.s.executions
    /\ resp' = r.resp
    /\ trail' = tr
    /\ UNCHANGED <<DEBUG, calls>>

\* the state after start-up: settings.DEBUG is True unless the environment
\* of the deployment sets it to false
Init ==
    /\ DEBUG \in BOOLEAN
    /\ users = RegisteredUsers
    /\ items = << >>
    /\ issued = 0
    /\ blobs = {}
    /\ now = 1
    /\ executions = {}
    /\ resp = NoResp
    /\ trail = NoTrail
    /\ calls = NoCalls

\* a client (or anything else with access to the bucket) uploads the file
ExternalPut ==
    \E n \in ItemIds :
        /\ Idle
        /\ FileKey(n) \notin blobs
        /\ blobs' = blobs \cup {FileKey(n)}
        /\ trail' = IF trail.stage = "created" THEN trail ELSE NoTrail
        /\ UNCHANGED <<DEBUG, users, items, issued, now, executions, resp, calls>>

\* an object is removed from the bucket from outside
ExternalRemove ==
    \E k \in blobs :
        /\ Idle
        /\ blobs' = blobs \ {k}
        /\ trail' = IF trail.stage = "created" THEN trail ELSE NoTrail
        /\ UNCHANGED <<DEBUG, users, items, issued, now, executions, resp, calls>>

\* the response has been sent; the next request can be served
Respond ==
    /\ ~Idle
    /\ resp' = NoResp
    /\ UNCHANGED <<DEBUG, users, items, issued, blobs, now, executions, trail, calls>>

CreateStep(cred, item_in, sfn) ==
    /\ issued < MaxItems
    /\ LET r == create_library_item(DEBUG, cur, cred, item_in, sfn) IN
       Apply(r, IF r.resp.status = HTTP_201
                THEN [id |-> r.resp.id, stage |-> "created", rec |-> r.s.items[r.resp.id]]
                ELSE NoTrail)

Create ==
    \E cred \in Credentials, item_in \in CreatePayloads(issued + 1) :
        CreateStep(cred, item_in, S3_OK)

Get ==
    \E cred \in Credentials, item_id \in ItemIds :
        Apply(get_library_item(DEBUG, cur, cred, item_id), NoTrail)

Update ==
    \E cred \in Credentials, item_id \in ItemIds, item_in \in UpdatePayloads :
        Apply(update_library_item(DEBUG, cur, cred, item_id, item_in), NoTrail)

Delete ==
    \E cred \in Credentials, item_id \in ItemIds, permanent \in BOOLEAN,
       outcome \in DeleteOutcomes :
        LET r == delete_library_item(DEBUG, cur, cred, item_id, permanent, outcome) IN
        Apply(r, IF /\ r.resp.status = HTTP_200
                    /\ ~permanent
                    /\ items[item_id].deleted_at = NullTime
                 THEN [id |-> item_id, stage |-> "softdeleted", rec |-> items[item_id]]
                 ELSE NoTrail)

Restore ==
    \E cred \in Credentials, item_id \in ItemIds :
        LET r == restore_library_item(DEBUG, cur, cred, item_id) IN
        Apply(r, IF /\ r.resp.status = HTTP_200
                    /\ trail.stage = "softdeleted"
                    /\ trail.id = item_id
                 THEN [trail EXCEPT !.stage = "roundtrip"]
                 ELSE NoTrail)

List ==
    \E cred \in Credentials, w \in Windows, mode \in ListModes,
       include_deleted \in BOOLEAN,
       head_error \in {NullKey} \cup {items[i].s3_key : i \in DOMAIN items} :
        LET r == get_my_library_items(DEBUG, cur, cred, w[1], w[2], mode[1], mode[2],
                                      include_deleted, head_error) IN
        Apply(r, IF /\ r.resp.status = HTTP_200
                    /\ trail.stage \in {"softdeleted", "roundtrip"}
                    /\ r.resp.user = trail.rec.user_id
                 THEN [trail EXCEPT !.stage = IF trail.stage = "roundtrip"
                                              THEN "roundtrip_listed"
                                              ELSE "softdeleted_listed"]
                 ELSE NoTrail)

PublicList ==
    \E w \in Windows, item_type \in {None} \cup ItemTypes :
        Apply(get_public_library_items(cur, w[1], w[2], item_type), NoTrail)

Stats ==
    \E cred \in Credentials :
        Apply(get_my_library_stats(DEBUG, cur, cred), NoTrail)

Next ==
    \/ ExternalPut
    \/ ExternalRemove
    \/ Respond
    \/ Create
    \/ Get
    \/ Update
    \/ Delete
    \/ Restore
    \/ List
    \/ PublicList
    \/ Stats

Spec == Init /\ [][Next]_vars

\* ------------------------------------------ a library already stored
\* the service started over a library that already holds items of one
\* user: each is Active, was created before the clock's first instant, and
\* has its blob in the bucket or not
StoredOwner == "u1"
StoredRows(n) ==
    { NewItem(StoredOwner, item_in, n - MaxItems) : item_in \in CreatePayloads(n) }

InitStored ==
    /\ DEBUG \in BOOLEAN
    /\ users = RegisteredUsers
    /\ \E n \in 1..MaxItems :
          /\ items \in [1..n -> UNION {StoredRows(i) : i \in 1..n}]
          /\ \A i \in 1..n : items[i] \in StoredRows(i)
          /\ issued = n
    /\ blobs \in SUBSET {FileKey(i) : i \in DOMAIN items}
    /\ now = 1
    /\ executions = {}
    /\ resp = NoResp
    /\ trail = NoTrail
    /\ calls = NoCalls

NextStored ==
    \/ ExternalPut
    \/ ExternalRemove
    \/ Respond
    \/ Delete
    \/ Restore
    \/ List

SpecStored == InitStored /\ [][NextStored]_vars

\* --------------------------------------- the request bodies as they arrive
\* the create and update requests before validation: names that are empty,
\* blank or padded, sizes that are zero or negative, and JSON nulls

\* the status FastAPI answers when the request body fails validation
HTTP_422 == 422

\* str.strip(): the text without its leading and trailing blanks
RECURSIVE Strip(_)
Strip(v) ==
    IF v = << >> THEN v
    ELSE IF Head(v) = " " THEN Strip(Tail(v))
    ELSE IF v[Len(v)] = " " THEN Strip(SubSeq(v, 1, Len(v) - 1))
    ELSE v

\* validate_name that lets a blank name through as it is
validate_name_accepting_blank(v) ==
    IF v = << >> THEN [ok |-> FALSE, v |-> v]
    ELSE [ok |-> TRUE, v |-> IF Strip(v) = << >> THEN v ELSE Strip(v)]

\* Field(min_length=1) followed by the validator of name (the same in
\* LibraryItemBase and, for a name that is not None, in LibraryItemUpdate)
validate_name(v) ==
    IF v = << >> \/ Strip(v) = << >> THEN [ok |-> FALSE, v |-> v]
    ELSE [ok |-> TRUE, v |-> Strip(v)]

\* a create body: name, file_size and the fields sent as null
RawCreateBodies(n) ==
    { [name |-> nm, file_size |-> sz, nulls |-> nl, base |-> p] :
        nm \in {<< >>, <<" ">>, <<"a">>, <<" ", "a", " ">>},
        sz \in {100, 0, -1},
        nl \in {{}, {"name"}},
        p \in CreatePayloads(n) }

\* LibraryItemCreate(**body): name is required and not None, file_size gt=0
ParseCreate(body) ==
    LET nm == validate_name(body.name) IN
    [ok |-> "name" \notin body.nulls /\ nm.ok /\ body.file_size > 0,
     item_in |-> [body.base EXCEPT !.name = nm.v, !.file_size = body.file_size]]

\* an update body: the fields given with a value, and the fields given as null
RawUpdateBodies ==
    { b \in { [given |-> Field("name", n) @@ Field("visibility", v), nulls |-> nl] :
                n \in Optional({<< >>, <<" ">>, <<"B">>, <<" ", "B", " ">>}),
                v \in Optional({"public"}),
                nl \in {{}, {"name"}} } :
        /\ DOMAIN b.given \cup b.nulls # {}
        /\ DOMAIN b.given \cap b.nulls = {} }

\* LibraryItemUpdate(**body): None passes for an Optional field and is kept
\* by dict(exclude_unset=True)
ParseUpdate(body) ==
    LET nm == IF "name" \in DOMAIN body.given THEN validate_name(body.given.name)
              ELSE [ok |-> TRUE, v |-> << >>] IN
    [ok |-> nm.ok,
     item_in |-> IF "name" \in DOMAIN body.given
                 THEN [body.given EXCEPT !.name = nm.v] ELSE body.given,
     nulls |-> body.nulls]

\* the columns declared nullable=False that an update body can name
NotNullColumns == {"name", "visibility"}

\* POST /library-items with the body as sent
PostLibraryItem(dbg, s, cred, body, sfn) ==
    LET p == ParseCreate(body) IN
    IF ~p.ok
    THEN Result(s, [NoResp EXCEPT !.op = "create", !.cred = cred, !.status = HTTP_422])
    ELSE create_library_item(dbg, s, cred, p.item_in, sfn)

\* PUT /library-items/{item_id} with the body as sent: a None for a NOT NULL
\* column makes the commit of CRUDBase.update fail, which is answered 500
PutLibraryItem(dbg, s, cred, item_id, body) ==
    LET p == ParseUpdate(body)
        current_user == get_current_user_optional(dbg, s.users, cred)
        who == resolve_current_user(dbg, s.users, current_user)
        r0 == [NoResp EXCEPT !.op = "update", !.cred = cred, !.id = item_id,
                             !.fields = DOMAIN p.item_in \cup p.nulls]
    IN  IF ~p.ok THEN Result(s, [r0 EXCEPT !.status = HTTP_422])
        ELSE IF /\ who.user_id # None
                /\ get(s.items, item_id) # << >>
                /\ s.items[item_id].user_id = who.user_id
                /\ p.nulls \cap NotNullColumns # {}
        THEN Result([s EXCEPT !.users = who.users],
                    [r0 EXCEPT !.user = who.user_id, !.status = HTTP_500])
        ELSE LET r == update_library_item(dbg, s, cred, item_id, p.item_in) IN
             Result(r.s, [r.resp EXCEPT !.fields = r0.fields])

CreateRaw ==
    \E cred \in Credentials, body \in RawCreateBodies(issued + 1) :
        /\ issued < MaxItems
        /\ Apply(PostLibraryItem(DEBUG, cur, cred, body, S3_OK), NoTrail)

UpdateRaw ==
    \E cred \in Credentials, item_id \in ItemIds, body \in RawUpdateBodies :
        Apply(PutLibraryItem(DEBUG, cur, cred, item_id, body), NoTrail)

NextRaw ==
    \/ Respond
    \/ CreateRaw
    \/ UpdateRaw

SpecRaw == Init /\ [][NextRaw]_vars

\* ------------------------------------------------- the download URL
\* reading an attribute of a LibraryItem: the mapped class has the columns
\* of the row and nothing else raises AttributeError
HasAttr(item, attr) == attr \in DOMAIN item

\* GET /upload/download/{item_id}: authentication is get_current_active_user
\* (every user row of the model is active); the owner test reads
\* item.user_profile_id, and any exception but HTTPException is answered 500
generate_download_url(dbg, s, cred, item_id) ==
    LET current_user == get_current_user(dbg, s.users, cred)
        r0 == [NoResp EXCEPT !.op = "download", !.cred = cred, !.user = current_user,
                             !.id = item_id]
    IN  IF current_user = None THEN Result(s, [r0 EXCEPT !.status = HTTP_401])
        ELSE IF get(s.items, item_id) = << >> THEN Result(s, [r0 EXCEPT !.status = HTTP_404])
        ELSE LET item == s.items[item_id] IN
             IF ~HasAttr(item, "user_profile_id")
             THEN Result(s, [r0 EXCEPT !.status = HTTP_500])
             ELSE LET is_owner == item.user_profile_id = current_user
                      is_public == item.visibility = "public"
                  IN  IF ~(is_owner \/ is_public)
                      THEN Result(s, [r0 EXCEPT !.status = HTTP_403])
                      ELSE Result(s, [r0 EXCEPT !.status = HTTP_200,
                                                !.attempted = <<item.s3_key>>])

Download ==
    \E cred \in Credentials, item_id \in ItemIds :
        Apply(generate_download_url(DEBUG, cur, cred, item_id), NoTrail)

NextDownload ==
    \/ Respond
    \/ Create
    \/ Download

SpecDownload == Init /\ [][NextDownload]_vars

\* ------------------------------------------- the requests taken wide
\* the same service under few kinds of request, each with a wide range of
\* inputs: every kind / mime type pair and a failing workflow trigger on
\* create, request bodies with unknown fields on update, windows beyond
\* the cap and beyond the last page on list

\* kind and mime type of the create requests: a video by both, by kind
\* only, by mime type only, by neither, and two documents whose mime type
\* is a bare "video" or differs from a video type in case
WideKinds ==
    { <<"video", Mime("video", "mp4")>>, <<"video", Mime("application", "pdf")>>,
      <<"document", Mime("video", "mp4")>>, <<"document", Mime("application", "pdf")>>,
      <<"document", <<"video">> >>, <<"document", Mime("Video", "mp4")>> }

WideCreatePayloads(n) ==
    { LibraryItemCreate(<<"a">>, k[1], k[2], Unset, FileKey(n), NullKey, 100) :
        k \in WideKinds }

\* the wide requests are one owner's
WideCredentials == {"u1"}

\* LibraryItemUpdate(**body): pydantic keeps the declared fields of the
\* request body and ignores the others
LibraryItemUpdate_keeping_extras(body) == body

LibraryItemUpdate(body) ==
    [f \in DOMAIN body \cap {"name", "visibility", "preview_text"} |-> body[f]]

\* values for columns the schema does not declare
ExtraFields ==
    { << >>,
      "s3_key" :> FileKey(MaxItems + 1),
      "deleted_at" :> MaxTime,
      ("user_id" :> "u2") @@ ("type" :> "image") @@ ("file_size" :> 1) }

\* request bodies: any of the three declared fields, and possibly values
\* for columns the schema does not declare
WideUpdateBodies ==
    { Field("name", n) @@ Field("visibility", v) @@ Field("preview_text", p) @@ extra :
        n \in Optional({<<"B">>}), v \in Optional({"public"}), p \in Optional({<<"t">>}),
        extra \in ExtraFields } \ {<< >>}

WideWindows ==
    { <<0, 1>>, <<1, 1>>, <<2, 1>>, <<3, 2>>, <<0, 2>>, <<0, DEFAULT_LIMIT>>,
      <<0, MAX_LIMIT>>, <<0, MAX_LIMIT + 1>>, <<MAX_LIMIT + 50, 2 * MAX_LIMIT>> }

CreateWide ==
    \E cred \in WideCredentials, item_in \in WideCreatePayloads(issued + 1),
       sfn \in {S3_OK, S3_CLIENT_ERROR} :
        CreateStep(cred, item_in, sfn)

UpdateWide ==
    \E cred \in WideCredentials, item_id \in ItemIds, body \in WideUpdateBodies :
        Apply(update_library_item(DEBUG, cur, cred, item_id, LibraryItemUpdate(body)), NoTrail)

ListWide ==
    \E cred \in WideCredentials, w \in WideWindows, include_deleted \in BOOLEAN :
        Apply(get_my_library_items(DEBUG, cur, cred, w[1], w[2], None, NullText,
                                   include_deleted, NullKey), NoTrail)

\* the owner's soft or permanent delete, every delete_object call answering
DeleteWide ==
    \E cred \in WideCredentials, item_id \in ItemIds, permanent \in BOOLEAN :
        Apply(delete_library_item(DEBUG, cur, cred, item_id, permanent,
                                  [f \in {"s3_key", "s3_preview_key", "s3_thumbnail_key",
                                          "s3_subtitle_key"} |-> S3_OK]), NoTrail)

NextWide ==
    \/ ExternalPut
    \/ Respond
    \/ CreateWide
    \/ UpdateWide
    \/ DeleteWide
    \/ ListWide

SpecWide == Init /\ [][NextWide]_vars

\* ------------------------------------------- overlapping list calls
\* GET /library-items without filter, by user u1, taken apart at its awaits:
\* the SELECT of the candidates, then per candidate the existence check with
\* the decision taken on the session's copy of the row, the UPDATE with its
\* commit, the refresh of the session's copy; then the final count. The
\* session (expire_on_commit=False, no populate_existing) keeps the copy it
\* loaded until it refreshes it, whatever other sessions commit meanwhile.
MaxCalls == 2        \* list calls begun in all

RaceUser == "u1"
RaceWindows == {<<0, DEFAULT_LIMIT>>, <<0, 1>>}

\* the loop body's choice for a candidate: restore, soft_delete or neither
ReconcileDecision_never_restoring(s3_exists, deleted_at) ==
    IF ~s3_exists /\ deleted_at = NullTime THEN "soft_delete" ELSE "none"

ReconcileDecision(s3_exists, deleted_at) ==
    IF s3_exists /\ deleted_at # NullTime THEN "restore"
    ELSE IF ~s3_exists /\ deleted_at = NullTime THEN "soft_delete"
    ELSE "none"

\* a flush that inverts the row's mark instead of writing the session's value
FlushDeletedAt_toggling(row, decision, t) ==
    [row EXCEPT !.deleted_at = IF row.deleted_at = NullTime THEN t ELSE NullTime,
                !.updated_at = t]

\* the UPDATE that commit flushes: deleted_at as the session's copy has it
\* after obj.soft_delete() / obj.restore(), and updated_at by onupdate
FlushDeletedAt(row, decision, t) ==
    [row EXCEPT !.deleted_at = IF decision = "soft_delete" THEN t ELSE NullTime,
                !.updated_at = t]

\* the call goes on to its next candidate, or to the final count
Advance(call) ==
    [call EXCEPT !.k = @ + 1,
                 !.decision = "none",
                 !.pc = IF call.k < Len(call.cands) THEN "check" ELSE "count"]

\* an item the owner created at time n, later soft-deleted or not
RaceRow(n, deleted) ==
    [NewItem(RaceUser,
             LibraryItemCreate(<<"a">>, "document", Mime("application", "pdf"), Unset,
                               FileKey(n), NullKey, 100), n)
        EXCEPT !.deleted_at = IF deleted THEN MaxItems + 1 ELSE NullTime,
               !.updated_at = IF deleted THEN MaxItems + 1 ELSE n]

\* whatever happened before: the owner's items, each Active or
\* SoftDeleted, each with its blob in the bucket or not
InitRace ==
    /\ DEBUG = FALSE
    /\ users = RegisteredUsers
    /\ \E n \in 1..MaxItems, gone \in SUBSET (1..MaxItems) :
          /\ gone \subseteq 1..n
          /\ items = [i \in 1..n |-> RaceRow(i, i \in gone)]
          /\ issued = n
    /\ blobs \in SUBSET {FileKey(i) : i \in DOMAIN items}
    /\ now = MaxItems + 2
    /\ executions = {}
    /\ resp = NoResp
    /\ trail = NoTrail
    /\ calls = NoCalls

RaceFrame == UNCHANGED <<DEBUG, users, issued, executions, resp, trail>>

\* get_by_user(include_deleted=True): the session loads the candidates
RaceFetch(c) ==
    \E w \in RaceWindows, include_deleted \in BOOLEAN :
        LET cands == get_by_user(items, RaceUser, w[1], Min(w[2], MAX_LIMIT), TRUE) IN
        /\ calls[c].pc = "idle"
        /\ calls[1].n + calls[2].n < MaxCalls
        /\ calls' = [calls EXCEPT ![c] =
              [NoCall EXCEPT !.pc = IF cands = << >> THEN "count" ELSE "check",
                             !.n = calls[c].n + 1,
                             !.include_deleted = include_deleted,
                             !.cands = cands,
                             !.k = 1,
                             !.view = [i \in {cands[j] : j \in 1..Len(cands)} |-> items[i].deleted_at],
                             !.seen = [i \in {cands[j] : j \in 1..Len(cands)} |-> "unseen"]]]
        /\ UNCHANGED <<items, blobs, now>>
        /\ RaceFrame

\* file_exists for the candidate and the branch of the loop body taken on
\* the session's copy
RaceCheck(c) ==
    \E outcome \in {S3_OK, S3_CLIENT_ERROR} :
        LET call == calls[c]
            i == call.cands[call.k]
            s3_exists == file_exists(blobs, items[i].s3_key, outcome)
            decision == ReconcileDecision(s3_exists, call.view[i])
            observed == [call EXCEPT !.seen[i] = IF s3_exists THEN "present" ELSE "absent",
                                     !.erred = IF outcome = S3_OK THEN @ ELSE @ \cup {i},
                                     !.decision = decision]
        IN  /\ call.pc = "check"
            /\ calls' = [calls EXCEPT ![c] =
                  IF decision # "none" THEN [observed EXCEPT !.pc = "commit"]
                  ELSE IF s3_exists
                       THEN Advance([observed EXCEPT !.valid_items = Append(@, i)])
                       ELSE Advance(observed)]
            /\ UNCHANGED <<items, blobs, now>>
            /\ RaceFrame

\* db.commit() of soft_delete / restore: the UPDATE reaches the table; a
\* call of the other connection that is under way is no longer alone
RaceCommit(c) ==
    LET call == calls[c]
        i == call.cands[call.k]
    IN  /\ call.pc = "commit"
        /\ items' = [items EXCEPT ![i] = FlushDeletedAt(items[i], call.decision, now)]
        /\ now' = now + 1
        /\ calls' = [d \in Callers |->
              IF d = c THEN [call EXCEPT !.pc = "refresh", !.wrote = @ \cup {i}]
              ELSE IF calls[d].pc = "idle" THEN calls[d]
              ELSE [calls[d] EXCEPT !.undisturbed = FALSE]]
        /\ UNCHANGED blobs
        /\ RaceFrame

\* db.refresh(obj): the session's copy becomes the row as it is now; after
\* a restore the item is read again and appended if it is Active (or if
\* include_deleted)
RaceRefresh(c) ==
    LET call == calls[c]
        i == call.cands[call.k]
        refreshed == [call EXCEPT !.view[i] = items[i].deleted_at]
    IN  /\ call.pc = "refresh"
        /\ calls' = [calls EXCEPT ![c] =
              IF call.decision = "restore"
                 /\ (call.include_deleted \/ refreshed.view[i] = NullTime)
              THEN Advance([refreshed EXCEPT !.valid_items = Append(@, i)])
              ELSE Advance(refreshed)]
        /\ UNCHANGED <<items, blobs, now>>
        /\ RaceFrame

\* the final count_user_items and the 200 answer
RaceCount(c) ==
    /\ calls[c].pc = "count"
    /\ calls' = [calls EXCEPT ![c] =
          [@ EXCEPT !.pc = "done",
                    !.total = FinalTotal(cur, cur, RaceUser, calls[c].include_deleted),
                    !.status = HTTP_200]]
    /\ UNCHANGED <<items, blobs, now>>
    /\ RaceFrame

\* the answer has been sent; the connection can make its next call
RaceReturn(c) ==
    /\ calls[c].pc = "done"
    /\ calls' = [calls EXCEPT ![c] = [NoCall EXCEPT !.n = calls[c].n]]
    /\ UNCHANGED <<items, blobs, now>>
    /\ RaceFrame

\* the bucket changes under the calls: an object is put or removed
Unsteady == [d \in Callers |->
                IF calls[d].pc = "idle" THEN calls[d] ELSE [calls[d] EXCEPT !.steady = FALSE]]

RaceBlobPut ==
    \E i \in DOMAIN items :
        /\ items[i].s3_key \notin blobs
        /\ blobs' = blobs \cup {items[i].s3_key}
        /\ calls' = Unsteady
        /\ UNCHANGED <<items, now>>
        /\ RaceFrame

RaceBlobRemove ==
    \E key \in blobs :
        /\ blobs' = blobs \ {key}
        /\ calls' = Unsteady
        /\ UNCHANGED <<items, now>>
        /\ RaceFrame

NextRace ==
    \/ \E c \in Callers : RaceFetch(c)
    \/ \E c \in Callers : RaceCheck(c)
    \/ \E c \in Callers : RaceCommit(c)
    \/ \E c \in Callers : RaceRefresh(c)
    \/ \E c \in Callers : RaceCount(c)
    \/ \E c \in Callers : RaceReturn(c)
    \/ RaceBlobPut
    \/ RaceBlobRemove

SpecRace == InitRace /\ [][NextRace]_vars

\* ------------------------------ a list call and a permanent delete
\* one list call of the owner, split at its awaits as above and, inside
\* soft_delete and restore, at the SELECT, the commit and the refresh,
\* while the owner's permanent deletes are served on another connection

\* the connection that lists
Lister == 1

\* where the slot of a row that is no longer there stands in valid_items
NoneItem == 0

\* the call ends in the handler's except branch
Fails(call) == [call EXCEPT !.pc = "done", !.status = HTTP_500]

\* item = await get(...); if include_deleted or item.deleted_at is None:
\* append. With item None the first operand decides: the None is appended,
\* or the attribute access raises
AppendFetched(call, i, tbl) ==
    IF get(tbl, i) = << >>
    THEN IF call.include_deleted
         THEN Advance([call EXCEPT !.valid_items = Append(@, NoneItem)])
         ELSE Fails(call)
    ELSE LET seen == [call EXCEPT !.view[i] = tbl[i].deleted_at] IN
         IF call.include_deleted \/ seen.view[i] = NullTime
         THEN Advance([seen EXCEPT !.valid_items = Append(@, i)])
         ELSE Advance(seen)

PurgeFrame == UNCHANGED <<DEBUG, users, issued, executions, resp, trail>>

\* file_exists on the session's copy of the candidate and the branch taken
PurgeCheck ==
    \E outcome \in {S3_OK, S3_CLIENT_ERROR} :
        LET call == calls[Lister]
            i == call.cands[call.k]
            s3_exists == file_exists(blobs, FileKey(i), outcome)
            decision == ReconcileDecision(s3_exists, call.view[i])
            observed == [call EXCEPT !.seen[i] = IF s3_exists THEN "present" ELSE "absent",
                                     !.erred = IF outcome = S3_OK THEN @ ELSE @ \cup {i},
                                     !.decision = decision]
        IN  /\ call.pc = "check"
            /\ calls' = [calls EXCEPT ![Lister] =
                  IF decision # "none" THEN [observed EXCEPT !.pc = "load"]
                  ELSE IF s3_exists
                       THEN Advance([observed EXCEPT !.valid_items = Append(@, i)])
                       ELSE Advance(observed)]
            /\ UNCHANGED <<items, blobs, now>>
            /\ PurgeFrame

\* obj = await self.get(db, id) of soft_delete / restore: without a row the
\* method returns None; after soft_delete the loop goes on, after restore
\* the handler reads the item again
PurgeLoad ==
    LET call == calls[Lister]
        i == call.cands[call.k]
    IN  /\ call.pc = "load"
        /\ calls' = [calls EXCEPT ![Lister] =
              IF get(items, i) # << >> THEN [call EXCEPT !.pc = "commit"]
              ELSE IF call.decision = "soft_delete" THEN Advance(call)
              ELSE [call EXCEPT !.pc = "reget"]]
        /\ UNCHANGED <<items, blobs, now>>
        /\ PurgeFrame

\* db.commit(): the UPDATE by primary key; it raises when it matches no row
PurgeCommit ==
    LET call == calls[Lister]
        i == call.cands[call.k]
    IN  /\ call.pc = "commit"
        /\ IF get(items, i) = << >>
           THEN /\ calls' = [calls EXCEPT ![Lister] = Fails(call)]
                /\ UNCHANGED <<items, now>>
           ELSE /\ items' = [items EXCEPT ![i] = FlushDeletedAt(items[i], call.decision, now)]
                /\ now' = now + 1
                /\ calls' = [calls EXCEPT ![Lister] =
                                [call EXCEPT !.pc = "refresh", !.wrote = @ \cup {i}]]
        /\ UNCHANGED blobs
        /\ PurgeFrame

\* db.refresh(obj): it raises when the row is gone
PurgeRefresh ==
    LET call == calls[Lister]
        i == call.cands[call.k]
    IN  /\ call.pc = "refresh"
        /\ calls' = [calls EXCEPT ![Lister] =
              IF get(items, i) = << >> THEN Fails(call)
              ELSE LET refreshed == [call EXCEPT !.view[i] = items[i].deleted_at] IN
                   IF call.decision = "restore" THEN [refreshed EXCEPT !.pc = "reget"]
                   ELSE Advance(refreshed)]
        /\ UNCHANGED <<items, blobs, now>>
        /\ PurgeFrame

\* item = await library_item_crud.get(db, id=...) after the restore
PurgeReget ==
    LET call == calls[Lister]
        i == call.cands[call.k]
    IN  /\ call.pc = "reget"
        /\ calls' = [calls EXCEPT ![Lister] = AppendFetched(call, i, items)]
        /\ UNCHANGED <<items, blobs, now>>
        /\ PurgeFrame

\* the final count and LibraryItemResponse.from_orm for every element of
\* valid_items, which raises for a None
PurgeCount ==
    LET call == calls[Lister] IN
    /\ call.pc = "count"
    /\ calls' = [calls EXCEPT ![Lister] =
          [call EXCEPT !.pc = "done",
                       !.total = FinalTotal(cur, cur, RaceUser, call.include_deleted),
                       !.status = IF (\E j \in 1..Len(call.valid_items) : call.valid_items[j] = NoneItem)
                                  THEN HTTP_500 ELSE HTTP_200]]
    /\ UNCHANGED <<items, blobs, now>>
    /\ PurgeFrame

\* DELETE /library-items/{item_id}?permanent=true by the owner, served on
\* the other connection: the blobs are deleted, then the row
PurgeDelete ==
    \E i \in DOMAIN items :
        LET d == delete_item(cur, i, RaceUser, FALSE,
                             [f \in {"s3_key", "s3_preview_key", "s3_thumbnail_key",
                                     "s3_subtitle_key"} |-> S3_OK]) IN
        /\ d.found
        /\ items' = d.s.items
        /\ blobs' = d.s.blobs
        /\ now' = d.s.now
        /\ calls' = [calls EXCEPT ![Lister] =
              IF @.pc = "idle" THEN @ ELSE [@ EXCEPT !.undisturbed = FALSE]]
        /\ PurgeFrame

NextPurge ==
    \/ RaceFetch(Lister)
    \/ PurgeCheck
    \/ PurgeLoad
    \/ PurgeCommit
    \/ PurgeRefresh
    \/ PurgeReget
    \/ PurgeCount
    \/ RaceReturn(Lister)
    \/ PurgeDelete

SpecPurge == InitRace /\ [][NextPurge]_vars

\* ========================================================== properties
InSeq(x, q) == \E k \in 1..Len(q) : q[k] = x
Owned(tbl, user_id) == {i \in DOMAIN tbl : tbl[i].user_id = user_id}

\* the step taken serves a request of one of these kinds
Serves(ops) == resp.op = "none" /\ resp'.op \in ops

\* the candidates the list request being served fetches (from the state before)
Fetched ==
    Candidates(items, resp'.user, resp'.search, resp'.item_type,
               resp'.skip, Min(resp'.limit, MAX_LIMIT))

\* what the existence check of the list request being served reports for row i
Observed(i) ==
    file_exists(blobs, items[i].s3_key,
                IF items[i].s3_key = resp'.head_error THEN S3_CLIENT_ERROR ELSE S3_OK)

\* the non-empty keys of a row in the order primary, preview, thumbnail, subtitle
NonEmptyKeys(item) ==
    LET cols == SelectSeq(DeleteOrder, LAMBDA c : item[c] # NullKey)
    IN  [k \in 1..Len(cols) |-> item[cols[k]]]

\* ------------------------------------------------------------------ C1
\* C1: an update, delete or restore of an existing item by an authenticated
\* caller who is not its owner is answered not-found and changes neither
\* the item records nor the blobs.
C1_NonOwnerNotFound ==
    [][ (/\ Serves({"update", "delete", "restore"})
         /\ resp'.id \in DOMAIN items
         /\ resp'.user # None
         /\ resp'.user # items[resp'.id].user_id)
        => (/\ resp'.status = HTTP_404
            /\ items' = items
            /\ blobs' = blobs) ]_vars

\* a non-owner's request on an existing item whose blob is in the bucket
\* has been answered not-found
C1_Witness ==
    /\ resp.op \in {"update", "delete", "restore"}
    /\ resp.status = HTTP_404
    /\ resp.id \in DOMAIN items
    /\ resp.user # None
    /\ resp.user # items[resp.id].user_id
    /\ items[resp.id].s3_key \in blobs

\* ------------------------------------------------------------------ C2
\* C2: a direct read of an existing item returns it when the caller is the
\* owner or the item is public (so an unauthenticated caller can read a
\* public item); a non-owner reading a private item is answered forbidden.
\* The caller is the user the request's credentials prove.
C2_DirectReadRule ==
    (resp.op = "get" /\ resp.id \in DOMAIN items) =>
        LET item == items[resp.id]
            caller == verify_cognito_token(resp.cred)
        IN  IF item.visibility = "public" \/ caller = item.user_id
            THEN resp.status = HTTP_200
            ELSE caller # None => resp.status = HTTP_403

\* ------------------------------------------------------------------ C3
\* C3 as stated: when an item is Active and its blob absent, the owner's
\* next list call with include_deleted=false soft-deletes it and leaves it
\* out of the results, whatever the call's filter and window.
C3_AnyListCallSoftDeletes ==
    [][ \A i \in DOMAIN items :
          (/\ Serves({"list"})
           /\ resp'.user = items[i].user_id
           /\ ~resp'.include_deleted
           /\ items[i].deleted_at = NullTime
           /\ items[i].s3_key \notin blobs)
          => (/\ i \in DOMAIN items'
              /\ items'[i].deleted_at # NullTime
              /\ ~InSeq(i, resp'.data)) ]_vars

\* C3 amended: when an item is Active and its blob absent, the owner's next
\* list call with include_deleted=false that fetches the item as a candidate
\* (it matches the type filter or search string, if any, and lies inside the
\* skip/limit window) soft-deletes it and leaves it out of the results.
C3_FetchedAbsentSoftDeleted ==
    [][ \A i \in DOMAIN items :
          (/\ Serves({"list"})
           /\ resp'.user = items[i].user_id
           /\ ~resp'.include_deleted
           /\ items[i].deleted_at = NullTime
           /\ items[i].s3_key \notin blobs
           /\ InSeq(i, Fetched))
          => (/\ i \in DOMAIN items'
              /\ items'[i].deleted_at # NullTime
              /\ ~InSeq(i, resp'.data)) ]_vars

\* a list call with include_deleted=false has just soft-deleted an item
\* whose blob is absent and left it out
C3_Witness ==
    /\ resp.op = "list"
    /\ ~resp.include_deleted
    /\ resp.deleted_count >= 1
    /\ \E i \in Owned(items, resp.user) :
          /\ items[i].deleted_at = now - 1
          /\ items[i].s3_key \notin blobs
          /\ ~InSeq(i, resp.data)

\* ------------------------------------------------------------------ C4
\* C4 as stated: when an item is SoftDeleted and its blob is present, the
\* owner's next list call of any kind (default, type filter, search) clears
\* deleted_at.
C4_AnyListCallRestores ==
    [][ \A i \in DOMAIN items :
          (/\ Serves({"list"})
           /\ resp'.user = items[i].user_id
           /\ items[i].deleted_at # NullTime
           /\ items[i].s3_key \in blobs)
          => (i \in DOMAIN items' /\ items'[i].deleted_at = NullTime) ]_vars

\* C4 amended: when an item is SoftDeleted and its blob is present, the
\* owner's next list call with neither a type filter nor a search string,
\* whose skip/limit window covers the item and whose existence check for it
\* answers, clears deleted_at; a list call with a type filter or a search
\* string leaves the item as it is.
C4_DefaultListCallRestores ==
    [][ \A i \in DOMAIN items :
          (/\ Serves({"list"})
           /\ resp'.user = items[i].user_id
           /\ items[i].deleted_at # NullTime
           /\ items[i].s3_key \in blobs)
          => IF resp'.item_type = None /\ resp'.search = NullText
             THEN (/\ InSeq(i, get_by_user(items, resp'.user, resp'.skip,
                                           Min(resp'.limit, MAX_LIMIT), TRUE))
                   /\ resp'.head_error # items[i].s3_key)
                  => (i \in DOMAIN items' /\ items'[i].deleted_at = NullTime)
             ELSE i \in DOMAIN items' /\ items'[i] = items[i] ]_vars

\* a default-mode list call has just restored an item whose blob is present
C4_Witness ==
    /\ resp.op = "list"
    /\ resp.item_type = None
    /\ resp.search = NullText
    /\ resp.restored_count >= 1
    /\ \E i \in Owned(items, resp.user) :
          /\ items[i].deleted_at = NullTime
          /\ items[i].updated_at = now - 1
          /\ items[i].created_at < now - 1
          /\ items[i].s3_key \in blobs

\* ------------------------------------------------------------------ C5
\* C5: after a default-mode list call with include_deleted=false whose
\* window covers all of the owner's items (skip = 0, limit >= their number),
\* an item of the owner is left out of the results exactly when its
\* deleted_at is non-null when the call returns.
C5_ExcludedIffDeleted ==
    (/\ resp.op = "list"
     /\ resp.status = HTTP_200
     /\ ~resp.include_deleted
     /\ resp.item_type = None
     /\ resp.search = NullText
     /\ resp.skip = 0
     /\ resp.size >= Cardinality(Owned(items, resp.user)))
    => \A i \in Owned(items, resp.user) :
          ~InSeq(i, resp.data) <=> items[i].deleted_at # NullTime

\* such a call has returned one item of the owner and left out another
C5_Witness ==
    /\ resp.op = "list"
    /\ resp.status = HTTP_200
    /\ ~resp.include_deleted
    /\ resp.item_type = None
    /\ resp.search = NullText
    /\ resp.skip = 0
    /\ resp.size >= Cardinality(Owned(items, resp.user))
    /\ \E i, j \in Owned(items, resp.user) :
          /\ InSeq(i, resp.data)
          /\ ~InSeq(j, resp.data)
          /\ items[j].deleted_at # NullTime

\* ------------------------------------------------------------------ C6
\* C6: permanent deletion is terminal: the id of a purged record never
\* names a record again, and every later restore or direct read of it by an
\* authenticated caller is answered not-found, also when the blob is back.
C6_PurgedStaysPurged ==
    [][ \A i \in 1..issued :
          i \notin DOMAIN items
          => (/\ i \notin DOMAIN items'
              /\ (/\ Serves({"restore", "get"})
                  /\ resp'.id = i
                  /\ resp'.user # None)
                 => resp'.status = HTTP_404) ]_vars

\* a restore of a purged id has been answered not-found although the blob
\* is in the bucket again and another item has been created since
C6_Witness ==
    /\ resp.op = "restore"
    /\ resp.status = HTTP_404
    /\ resp.id \in 1..issued
    /\ resp.id \notin DOMAIN items
    /\ resp.id < issued
    /\ FileKey(resp.id) \in blobs

\* ------------------------------------------------------------------ C7
\* C7 as stated: the owner's soft delete of an Active item followed by the
\* owner's restore, with no list call and no outside change of the bucket in
\* between, leaves deleted_at null and every other persisted field,
\* updated_at included, as it was before the soft delete.
C7_RoundTripRestoresEverything ==
    trail.stage = "roundtrip" => items[trail.id] = trail.rec

\* C7 amended: that round trip leaves deleted_at null and every other
\* persisted field except updated_at as it was before the soft delete;
\* updated_at is the time of the restore.
C7_RoundTripRestoresAllButUpdatedAt ==
    trail.stage = "roundtrip" =>
        /\ items[trail.id] = [trail.rec EXCEPT !.updated_at = items[trail.id].updated_at]
        /\ items[trail.id].deleted_at = NullTime
        /\ items[trail.id].updated_at > trail.rec.updated_at

\* the restore that completes such a round trip has been answered
C7_Witness ==
    /\ trail.stage = "roundtrip"
    /\ resp.op = "restore"
    /\ resp.status = HTTP_200
    /\ resp.id = trail.id

\* ------------------------------------------------------------------ C8
\* C8 as stated: deleted_at of a record changes only in the owner's explicit
\* soft delete, the owner's explicit restore, or the list reconciliation of
\* a candidate whose blob presence disagrees with its recorded state.
C8_DeletedAtFrame ==
    [][ \A i \in DOMAIN items \cap DOMAIN items' :
          items'[i].deleted_at # items[i].deleted_at
          => \/ /\ resp'.op = "delete" /\ ~resp'.permanent /\ resp'.id = i
                /\ resp'.user = items[i].user_id
             \/ /\ resp'.op = "restore" /\ resp'.id = i
                /\ resp'.user = items[i].user_id
             \/ /\ resp'.op = "list"
                /\ resp'.user = items[i].user_id
                /\ InSeq(i, Fetched)
                /\ (items[i].s3_key \in blobs) # (items[i].deleted_at = NullTime) ]_vars

\* C8 amended: deleted_at of a record changes only in the owner's explicit
\* soft delete, the owner's explicit restore, or the list reconciliation of
\* a candidate whose blob presence as the existence check reports it (absent
\* also when the check fails) disagrees with its recorded state.
C8_DeletedAtFrameObserved ==
    [][ \A i \in DOMAIN items \cap DOMAIN items' :
          items'[i].deleted_at # items[i].deleted_at
          => \/ /\ resp'.op = "delete" /\ ~resp'.permanent /\ resp'.id = i
                /\ resp'.user = items[i].user_id
             \/ /\ resp'.op = "restore" /\ resp'.id = i
                /\ resp'.user = items[i].user_id
             \/ /\ resp'.op = "list"
                /\ resp'.user = items[i].user_id
                /\ InSeq(i, Fetched)
                /\ Observed(i) # (items[i].deleted_at = NullTime) ]_vars

\* a list call whose existence check failed for a present blob has just
\* soft-deleted the item
C8_Witness ==
    /\ resp.op = "list"
    /\ resp.head_error # NullKey
    /\ resp.deleted_count >= 1
    /\ \E i \in Owned(items, resp.user) :
          /\ items[i].s3_key = resp.head_error
          /\ items[i].s3_key \in blobs
          /\ items[i].deleted_at = now - 1

\* ------------------------------------------------------------------ C9
\* C9: a default-mode list call with include_deleted=true returns every item
\* of the owner that is still SoftDeleted after the reconciliation (its blob
\* is absent) and lies inside the requested window; a call with
\* include_deleted=false never returns an item whose deleted_at is non-null.
C9_IncludeDeletedListsSoftDeleted ==
    (resp.op = "list" /\ resp.status = HTTP_200) =>
        IF resp.include_deleted
        THEN (resp.item_type = None /\ resp.search = NullText) =>
                 \A i \in Owned(items, resp.user) :
                     (/\ items[i].deleted_at # NullTime
                      /\ items[i].s3_key \notin blobs
                      /\ InSeq(i, get_by_user(items, resp.user, resp.skip, resp.size, TRUE)))
                     => InSeq(i, resp.data)
        ELSE \A k \in 1..Len(resp.data) : items[resp.data[k]].deleted_at = NullTime

AsIfMissing ==
    get_my_library_items(DEBUG, [cur EXCEPT !.blobs = @ \ {resp'.head_error}],
                         resp'.cred, resp'.skip, resp'.limit, resp'.item_type,
                         resp'.search, resp'.include_deleted, NullKey)

C13_NoCredentialIsUnauthenticated ==
    [][ (/\ Serves({"create", "list", "update", "delete", "restore", "stats"})
         /\ ~DEBUG
         /\ verify_cognito_token(resp'.cred) = None)
        => (/\ resp'.status = HTTP_401
            /\ users' = users
            /\ items' = items
            /\ blobs' = blobs
            /\ executions' = executions) ]_vars

\* ----------------------------------------------------------------- C17
\* the sum of the values of f over S
RECURSIVE SumOver(_, _)
SumOver(f, S) ==
    IF S = {} THEN 0
    ELSE LET x == CHOOSE y \in S : TRUE IN f[x] + SumOver(f, S \ {x})

C19_TotalAfterReconciliation ==
    (resp.op = "list" /\ resp.status = HTTP_200)
    => resp.total = Cardinality({i \in Owned(items, resp.user) :
                                    resp.include_deleted \/ items[i].deleted_at = NullTime})

\* a list call that soft-deleted one of two Active items reports a total
\* of one
C19_Witness ==
    /\ resp.op = "list"
    /\ resp.status = HTTP_200
    /\ ~resp.include_deleted
    /\ resp.deleted_count = 1
    /\ resp.restored_count = 0
    /\ resp.total = 1
    /\ Cardinality(Owned(items, resp.user)) = 2

\* ----------------------------------------------------------------- C15
\* the step serves the first list call (no type filter, no search string,
\* skip = 0) of the creator of the item the last request created, made
\* while the item's blob is present
ListsTheNewItem ==
    /\ Serves({"list"})
    /\ trail.stage = "created"
    /\ resp'.user = items[trail.id].user_id
    /\ resp'.item_type = None
    /\ resp'.search = NullText
    /\ resp'.skip = 0
    /\ items[trail.id].s3_key \in blobs

\* what an answered create has persisted
CreatedActiveAndOwned ==
    (Serves({"create"}) /\ resp'.status = HTTP_201)
    => /\ resp'.id \notin DOMAIN items
       /\ resp'.id \in DOMAIN items'
       /\ items'[resp'.id].deleted_at = NullTime
       /\ items'[resp'.id].user_id = resp'.user
       /\ "visibility" \notin resp'.fields => items'[resp'.id].visibility = "private"
       /\ \A j \in DOMAIN items : items'[j] = items[j]

\* C15 as stated: create persists a new Active record owned by the caller,
\* private when the request gives no visibility; the caller's next default
\* list call returns it if its blob is present.
C15_CreatedThenListed ==
    [][ /\ CreatedActiveAndOwned
        /\ ListsTheNewItem
           => (/\ InSeq(trail.id, resp'.data)
               /\ items'[trail.id].deleted_at = NullTime) ]_vars

\* C15 amended: create persists a new Active record owned by the caller,
\* private when the request gives no visibility; the caller's next default
\* list call returns it if its blob is present and the existence check for
\* it answers.
C15_CreatedThenListedWhenChecked ==
    [][ /\ CreatedActiveAndOwned
        /\ (ListsTheNewItem /\ resp'.head_error # items[trail.id].s3_key)
           => (/\ InSeq(trail.id, resp'.data)
               /\ items'[trail.id].deleted_at = NullTime) ]_vars

\* the creator's list call right after a create that gave no visibility
\* has returned the new, private item
C15_Witness ==
    /\ resp.op = "list"
    /\ resp.status = HTTP_200
    /\ trail = NoTrail
    /\ resp.restored_count = 0
    /\ \E i \in Owned(items, resp.user) :
          /\ InSeq(i, resp.data)
          /\ items[i].visibility = "private"
          /\ items[i].created_at = now - 1
          /\ items[i].updated_at = now - 1

\* ----------------------------------------------------------------- C14
DeclaredUpdateFields == {"name", "visibility", "preview_text"}
FrozenFields ==
    {"user_id", "type", "mime_type", "s3_key", "file_size", "original_filename", "deleted_at"}

\* C14: an update changes, of name, visibility and preview_text, only the
\* fields the request gave; no update, whatever its body, changes which
\* records exist (their ids) or a record's owner, kind, mime type, storage
\* key, file size, original filename or deleted_at.
C14_UpdateFrame ==
    [][ Serves({"update"})
        => /\ DOMAIN items' = DOMAIN items
           /\ \A i \in DOMAIN items :
                 /\ \A f \in FrozenFields : items'[i][f] = items[i][f]
                 /\ \A f \in DeclaredUpdateFields \ (IF i = resp'.id THEN resp'.fields ELSE {}) :
                       items'[i][f] = items[i][f] ]_vars

\* the owner's update that gave only preview_text has changed it on a
\* soft-deleted record, which is still soft-deleted and keeps its name
C14_Witness ==
    /\ resp.op = "update"
    /\ resp.status = HTTP_200
    /\ resp.fields = {"preview_text"}
    /\ items[resp.id].preview_text = <<"t">>
    /\ items[resp.id].name = <<"a">>
    /\ items[resp.id].updated_at = now - 1
    /\ items[resp.id].deleted_at \notin {NullTime, now - 1}

\* ----------------------------------------------------------------- C16
\* C16: an answered create has called the workflow trigger if and only if
\* the new record's kind is video or its mime type begins with "video/";
\* the call is made for the record just persisted, with its storage key and
\* id, and starts that one execution unless it fails; when it fails the
\* record is persisted all the same and the answer is still 201. A create
\* that persists nothing triggers nothing.
C16_TriggerOnVideo ==
    [][ Serves({"create"})
        => IF resp'.status = HTTP_201
           THEN LET id == resp'.id
                    row == items'[id]
                    prefix == IF Len(row.mime_type) >= 2 THEN SubSeq(row.mime_type, 1, 2) ELSE << >>
                    video == row.type = "video" \/ prefix = <<"video", "/">>
                IN  /\ id \notin DOMAIN items
                    /\ id \in DOMAIN items'
                    /\ (resp'.attempted # << >>) <=> video
                    /\ video => resp'.attempted = <<row.s3_key>>
                    /\ executions' = IF video /\ resp'.failed = {}
                                     THEN executions \cup {<<row.s3_key, id>>}
                                     ELSE executions
                    /\ (video /\ resp'.failed = {}) => <<row.s3_key, id>> \notin executions
           ELSE /\ items' = items
                /\ executions' = executions
                /\ resp'.attempted = << >> ]_vars

\* a create of a document whose mime type is a video's has called the
\* trigger, the call has failed, and the record is there and the answer 201
C16_Witness ==
    /\ resp.op = "create"
    /\ resp.status = HTTP_201
    /\ resp.id \in DOMAIN items
    /\ items[resp.id].type = "document"
    /\ resp.attempted = <<items[resp.id].s3_key>>
    /\ resp.failed # {}
    /\ \A e \in executions : e[2] # resp.id

\* ----------------------------------------------------------------- C18
\* the least q with q * b >= a
Ceiling(a, b) == CHOOSE q \in 0..a : q * b >= a /\ (q - 1) * b < a

BothObserved(i, presence) ==
    \A c \in Callers :
        /\ calls[c].pc = "done"
        /\ i \in DOMAIN calls[c].seen
        /\ calls[c].seen[i] = presence

\* C11: when two list calls of the same owner have both finished and both
\* observed the same blob presence for an item, the item is Active if they
\* observed it present and SoftDeleted if they observed it absent, however
\* their reads and writes interleaved, and both calls have answered 200.
C11_SameObservationConverges ==
    \A i \in DOMAIN items, presence \in {"present", "absent"} :
        BothObserved(i, presence)
        => /\ (items[i].deleted_at = NullTime) <=> (presence = "present")
           /\ \A c \in Callers : calls[c].status = HTTP_200

\* two overlapping calls both loaded a soft-deleted item, both found its
\* blob present and both committed the restore; the item is Active
C11_Witness ==
    \E i \in DOMAIN items :
        /\ BothObserved(i, "present")
        /\ \A c \in Callers : i \in calls[c].wrote
        /\ items[i].deleted_at = NullTime

\* ----------------------------------------------------------------- C20
\* call c is a completed list call whose window covered item i, made
\* while blob presence did not change
SettledCall(c, i) ==
    /\ calls[c].pc = "done"
    /\ calls[c].steady
    /\ InSeq(i, calls[c].cands)

\* C20 as stated: once blob presence has stopped changing, one completed
\* default list call whose window covers an item leaves the item with
\* deleted_at = null if and only if its primary blob is present.
C20_OneCallStabilises ==
    \A c \in Callers, i \in DOMAIN items :
        SettledCall(c, i)
        => ((items[i].deleted_at = NullTime) <=> (items[i].s3_key \in blobs))

\* C20 amended: once blob presence has stopped changing, one completed
\* default list call whose window covers an item, whose existence check for
\* the item answers, and during which no other list call commits a write,
\* leaves the item with deleted_at = null if and only if its primary blob
\* is present.
C20_OneCallAloneStabilises ==
    \A c \in Callers, i \in DOMAIN items :
        (SettledCall(c, i) /\ i \notin calls[c].erred /\ calls[c].undisturbed)
        => ((items[i].deleted_at = NullTime) <=> (items[i].s3_key \in blobs))

\* after an earlier call on the other connection, a call made alone under a
\* steady bucket has restored an item whose blob is present
C20_Witness ==
    \E c \in Callers, i \in DOMAIN items :
        /\ SettledCall(c, i)
        /\ i \notin calls[c].erred
        /\ calls[c].undisturbed
        /\ i \in calls[c].wrote
        /\ items[i].s3_key \in blobs
        /\ items[i].deleted_at = NullTime
        /\ \E d \in Callers \ {c} : calls[d].n > 0

\* ----------------------------------------------------------------- C21
\* the owner's Active items of the kind a list request asks for
ActiveOfKind == {i \in Owned(items, resp.user) :
                    /\ items[i].deleted_at = NullTime
                    /\ items[i].type = resp.item_type}

\* C21: a list call with a type filter reports as total the number of the
\* owner's Active items of the requested kind, and pages and has_next as
\* derived from that number.
C21_FilteredTotal ==
    (resp.op = "list" /\ resp.status = HTTP_200
        /\ resp.item_type # None /\ resp.search = NullText)
    => /\ resp.total = Cardinality(ActiveOfKind)
       /\ resp.pages = Max(1, Ceiling(Cardinality(ActiveOfKind), resp.size))
       /\ resp.has_next <=> resp.page < Max(1, Ceiling(Cardinality(ActiveOfKind), resp.size))

\* ----------------------------------------------------------------- C22
\* the step serves the owner's list call that follows the owner's soft
\* delete and restore of an item whose primary blob is gone
ListsAfterRoundTrip ==
    /\ Serves({"list"})
    /\ resp'.status = HTTP_200
    /\ trail.stage = "roundtrip"
    /\ resp'.user = items[trail.id].user_id
    /\ items[trail.id].s3_key \notin blobs

\* an owner's delete whose blob deletions all succeed leaves none of the
\* item's blobs in the bucket
DeleteRemovesBlobs ==
    (/\ Serves({"delete"})
     /\ resp'.status = HTTP_200
     /\ resp'.failed = {})
    => \A k \in 1..Len(NonEmptyKeys(items[resp'.id])) :
          NonEmptyKeys(items[resp'.id])[k] \notin blobs'

\* C22 as stated: a soft delete whose blob deletions succeed removes the
\* blobs; after the owner's restore the owner's next list call, whatever
\* its filter and window, soft-deletes the item again and leaves it out.
C22_RestoredThenAnyListCall ==
    [][ /\ DeleteRemovesBlobs
        /\ ListsAfterRoundTrip
           => (/\ items'[trail.id].deleted_at # NullTime
               /\ ~InSeq(trail.id, resp'.data)) ]_vars

\* C22 amended: a soft delete whose blob deletions succeed removes the
\* blobs; after the owner's restore the owner's next list call that
\* fetches the item as a candidate (the item matches the type filter or
\* search string, if any, and lies inside the skip/limit window)
\* soft-deletes the item again and leaves it out.
C22_RestoredThenFetched ==
    [][ /\ DeleteRemovesBlobs
        /\ (ListsAfterRoundTrip /\ InSeq(trail.id, Fetched))
           => (/\ items'[trail.id].deleted_at # NullTime
               /\ ~InSeq(trail.id, resp'.data)) ]_vars

\* the owner's list call after the soft delete and the restore has
\* soft-deleted the item again
C22_Witness ==
    /\ trail.stage = "roundtrip_listed"
    /\ resp.op = "list"
    /\ items[trail.id].deleted_at = now - 1
    /\ items[trail.id].s3_key \notin blobs
    /\ ~InSeq(trail.id, resp.data)

\* ---------------------------------------------------------------- C23
\* a request the service did not carry out
Rejected == resp'.status \notin {HTTP_200, HTTP_201}

\* C23: every persisted item has a name that is not empty or blank and a
\* file_size above zero, whatever create and update bodies arrive (empty,
\* blank, padded or null names, zero or negative sizes), and a create or
\* update request that is rejected leaves the items as they were (and, when
\* it is rejected for its body, the users, blobs and executions too)
C23_ValidRecords ==
    /\ [](\A i \in DOMAIN items : Strip(items[i].name) # << >> /\ items[i].file_size > 0)
    /\ [][Serves({"create", "update"}) /\ Rejected
            => /\ items' = items
               /\ resp'.status \in {HTTP_422, HTTP_500} => UNCHANGED <<users, blobs, executions>>]_vars

\* an update giving null as the name of the requester's own item has been
\* refused, and the item keeps the name an earlier update gave it
C23_Witness ==
    /\ resp.op = "update" /\ resp.status = HTTP_500 /\ "name" \in resp.fields
    /\ resp.id \in DOMAIN items
    /\ items[resp.id].name = <<"B">>

\* ---------------------------------------------------------------- C24
\* the requester's Active items whose primary blob is in the bucket
PresentActive ==
    {i \in Owned(items, resp.user) : items[i].deleted_at = NullTime /\ items[i].s3_key \in blobs}

\* C24: paging is complete: a first page (skip 0) of the default mode without
\* include_deleted, whose existence checks all answered, that reports
\* has_next = false has returned every Active item of the requester whose
\* blob is present, so that no such item lies beyond the page
C24_LastPageLeavesNothing ==
    /\ resp.op = "list" /\ resp.status = HTTP_200
    /\ resp.item_type = None /\ resp.search = NullText
    /\ ~resp.include_deleted /\ resp.head_error = NullKey
    /\ resp.skip = 0 /\ ~resp.has_next
    => \A i \in PresentActive : InSeq(i, resp.data)

\* ---------------------------------------------------------------- C25
\* C25: a list call made for one user fetches, soft-deletes, restores and
\* returns that user's items only: whatever the filter, the search string,
\* the window and the blobs, no item of another owner is fetched or
\* returned and every such item is left exactly as it was
C25_ListStaysWithOwner ==
    [][Serves({"list"}) =>
        \A i \in DOMAIN items :
            items[i].user_id # resp'.user =>
                /\ i \in DOMAIN items' /\ items'[i] = items[i]
                /\ ~InSeq(i, resp'.data)
                /\ resp'.status = HTTP_200 => ~InSeq(i, Fetched)]_vars

\* a list call has soft-deleted or restored an item of the requester while
\* another owner's item, whose blob is absent as well, is still Active and
\* as it was created
C25_Witness ==
    /\ resp.op = "list" /\ resp.status = HTTP_200
    /\ resp.deleted_count + resp.restored_count > 0
    /\ \E i \in DOMAIN items :
          /\ items[i].user_id # resp.user
          /\ items[i].deleted_at = NullTime
          /\ items[i].s3_key \notin blobs
          /\ items[i].updated_at = items[i].created_at

\* ---------------------------------------------------------------- C26
\* C26: a list call never ends in an internal error, however the owner's
\* concurrent permanent delete of one of its candidates falls between its
\* steps
C26_ListSurvivesPurge == calls[Lister].status # HTTP_500

\* ---------------------------------------------------------------- C27
\* the owner's soft delete of an existing item is being served
OwnerSoftDeletes ==
    /\ Serves({"delete"}) /\ ~resp'.permanent
    /\ resp'.id \in DOMAIN items
    /\ resp'.user = items[resp'.id].user_id

\* the request after the owner's soft delete is the owner's list call in the
\* default mode, and its existence check finds the item's primary blob
ListFindsBlobAfterDelete ==
    /\ Serves({"list"}) /\ resp'.status = HTTP_200
    /\ trail.stage = "softdeleted"
    /\ resp'.user = trail.rec.user_id
    /\ resp'.item_type = None /\ resp'.search = NullText
    /\ InSeq(trail.id, Fetched)
    /\ Observed(trail.id)

\* C27: an owner's soft delete succeeds and marks the item SoftDeleted also
\* when deleting the primary blob fails, in which case the blob stays where
\* it was; the owner's next list call in the default mode that finds the
\* blob present restores the item to Active and returns it
C27_FailedBlobDeleteIsUndone ==
    [][ /\ OwnerSoftDeletes =>
            /\ resp'.status = HTTP_200
            /\ items'[resp'.id].deleted_at # NullTime
            /\ items[resp'.id].s3_key \in resp'.failed =>
                   (items[resp'.id].s3_key \in blobs' <=> items[resp'.id].s3_key \in blobs)
        /\ ListFindsBlobAfterDelete =>
            /\ items'[trail.id].deleted_at = NullTime
            /\ InSeq(trail.id, resp'.data) ]_vars

\* the list call that followed the owner's soft delete has restored the
\* item, whose blob the delete had failed to remove, and returned it
C27_Witness ==
    /\ trail.stage = "softdeleted_listed"
    /\ resp.op = "list" /\ resp.restored_count = 1
    /\ trail.rec.deleted_at = NullTime
    /\ items[trail.id].deleted_at = NullTime
    /\ items[trail.id].updated_at = now - 1
    /\ items[trail.id].s3_key \in blobs
    /\ InSeq(trail.id, resp.data)

C29_PublicListing ==
    [][Serves({"public"}) =>
        /\ UNCHANGED <<items, blobs, users, executions>>
        /\ resp'.status = HTTP_200
        /\ \A k \in 1..Len(resp'.data) :
              LET i == resp'.data[k] IN
              /\ i \in DOMAIN items
              /\ items[i].visibility = "public"
              /\ items[i].deleted_at = NullTime
              /\ resp'.item_type # None => items[i].type = resp'.item_type
        /\ (resp'.skip = 0 /\ resp'.limit >= MaxItems) =>
              \A i \in DOMAIN items :
                  (/\ items[i].visibility = "public"
                   /\ items[i].deleted_at = NullTime
                   /\ resp'.item_type \in {None, items[i].type})
                  => InSeq(i, resp'.data)]_vars

\* the public listing has returned one owner's public item, whose blob is
\* absent, and left out another owner's public item that is soft-deleted
C29_Witness ==
    /\ resp.op = "public" /\ resp.status = HTTP_200
    /\ \E i, j \in DOMAIN items :
          /\ InSeq(i, resp.data) /\ ~InSeq(j, resp.data)
          /\ items[i].s3_key \notin blobs
          /\ items[j].visibility = "public" /\ items[j].deleted_at # NullTime
          /\ items[i].user_id # items[j].user_id

\* ---------------------------------------------------------------- C30
\* C30: the download-URL request follows the rule of the single read: for
\* an authenticated requester, an unknown id is answered not-found, an
\* existing item is answered with a download URL for its primary blob when
\* the requester owns it or it is public, and Forbidden otherwise
C30_DownloadRule ==
    (resp.op = "download" /\ resp.user # None) =>
        IF resp.id \notin DOMAIN items THEN resp.status = HTTP_404
        ELSE IF items[resp.id].user_id = resp.user \/ items[resp.id].visibility = "public"
        THEN resp.status = HTTP_200 /\ resp.attempted = <<items[resp.id].s3_key>>
        ELSE resp.status = HTTP_403

====
